---- MODULE Spec2Model ----
(***************************************************************************)
(* Query-synthesis and relevance-filtering pipeline of chatbotBETA:        *)
(*   deepseek1.py    get_sql_from_deepseek, filter_books_with_deepseek,    *)
(*                   the two process-wide caches sql_cache, filter_cache   *)
(*   book_service.py BookRecommendationService.recommend_books             *)
(*   services.py     AIService.query_deepseek (the preamble call)          *)
(*   sql_utils.py    extract_sql_query, clean_sql                          *)
(*                                                                         *)
(* Every request is a thread of the Flask host (app.py:200, app.run) that  *)
(* runs recommend_books.  A thread's position is pc[p]; the places where   *)
(* a thread reads or writes a cache, or waits for an external collaborator,*)
(* are separate steps, so that the interleavings of the host are the       *)
(* behaviours of SpecThreads.  Spec is the same program with one request   *)
(* in flight at a time, SpecFair is Spec with the progress the host and    *)
(* the timeouts of the calls give.  SpecFunctions calls the synthesizer    *)
(* and clean_sql on their own, on arguments drawn from bounded sets.       *)
(*                                                                         *)
(* Texts are sequences of lexemes (words, single blanks, quoted patterns). *)
(* An exception is the name of its class.                                  *)
(***************************************************************************)
EXTENDS Integers, Sequences, FiniteSets, TLC

VARIABLES
    sql_cache,      \* deepseek1.py:31   user_query -> <<sql_text, loading_line>>
    filter_cache,   \* deepseek1.py:37   <<user_query, titles>> -> valid_indices
    pc,             \* position of each request thread
    user_query,     \* argument of recommend_books
    synth,          \* outcome of get_sql_from_deepseek in this invocation
    clean_query,    \* book_service.py:46 the text handed to execute_sql_query
    db_results,     \* rows returned by execute_sql_query
    filt,           \* outcome of filter_books_with_deepseek in this invocation
    ret,            \* what recommend_books handed to its caller
    stages,         \* the stages this invocation went through, in order, each
                    \* <<stage, how the collaborator answered>> (history)
    served,         \* user_query -> the pair a call stored first (history)
    call,           \* a function called on its own: its name and its arguments
    returned        \* what that call returned

vars == <<sql_cache, filter_cache, pc, user_query, synth, clean_query, db_results, filt,
          ret, stages, served, call, returned>>

\* the variables of a function called on its own
fvars == <<call, returned>>

----------------------------------------------------------------------------
(* Bounds of the model and constants of the program *)

\* request threads of the host
Procs == {"t1", "t2"}

\* deepseek1.py:33 and :39 are 1000; the model fills sql_cache with two entries
\* and filter_cache with one
MAX_CACHE_SIZE == 2
MAX_FILTER_CACHE_SIZE == 1

\* deepseek1.py:214  books[:20]
FILTER_LIMIT == 20
\* book_service.py:77  db_results[:15]
FALLBACK_ROWS == 15

\* the longest result set the data source returns in the model
MaxRows == 21

\* Python's None
None == "<None>"

----------------------------------------------------------------------------
(* Helpers on sequences *)

\* s[:n]
Take(s, n) == IF Len(s) > n THEN SubSeq(s, 1, n) ELSE s

\* list(range(n))
PyRange(n) == [i \in 1..n |-> i - 1]

\* a dict after d[k] = v
DictSet(d, k, v) == [x \in DOMAIN d \cup {k} |-> IF x = k THEN v ELSE d[x]]

----------------------------------------------------------------------------
(* Exceptions *)

RequestExceptions == {"Timeout", "ConnectionError", "HTTPError"}

\* isinstance(e, cls) for the classes the except clauses name
IsInstance(e, cls) ==
    CASE cls = "Exception" -> TRUE
      [] cls = "RequestException" -> e \in RequestExceptions
      [] cls = "Timeout" -> e = "Timeout"
      [] cls = "JSONDecodeError" -> e = "JSONDecodeError"
      [] OTHER -> e = cls

----------------------------------------------------------------------------
(* Texts *)

Ws == {" ", "\n"}
Digits == {"5", "15"}
\* the code-fence markers (three backquotes, with and without the sql tag)
Fences == {"[fence]sql", "[fence]"}
KnownTables == {"Table_ProductSearchNewSearch", "Table_TopBooksData"}

\* the quoted texts a loading_line marker can carry, and what is between the quotes
QuotedTexts == {"\"Searching\"", "\"\""}
Unquote(x) == IF x = "\"Searching\"" THEN "Searching" ELSE ""

\* the first position >= i of t that holds no whitespace (Len(t) + 1 when none)
RECURSIVE SkipWs(_, _)
SkipWs(t, i) ==
    IF i > Len(t) THEN Len(t) + 1
    ELSE IF t[i] \in Ws THEN SkipWs(t, i + 1) ELSE i

\* the last position <= i of t that holds no whitespace (0 when none)
RECURSIVE SkipWsBack(_, _)
SkipWsBack(t, i) ==
    IF i < 1 THEN 0
    ELSE IF t[i] \in Ws THEN SkipWsBack(t, i - 1) ELSE i

\* str.strip()
Strip(t) ==
    LET a == SkipWs(t, 1)
        b == SkipWsBack(t, Len(t))
    IN  IF a > b THEN <<>> ELSE SubSeq(t, a, b)

\* str.split(): the whitespace-delimited tokens
Split(t) == SelectSeq(t, LAMBDA x : x \notin Ws)

\* position i starts a match of the marker: loading_line:, blanks, a quoted text
MarkerAt(t, i) ==
    /\ i \in DOMAIN t
    /\ t[i] = "loading_line:"
    /\ SkipWs(t, i + 1) \in DOMAIN t
    /\ t[SkipWs(t, i + 1)] \in QuotedTexts

\* deepseek1.py:173 re.search of the marker: the first match, 0 when none
MarkerSearch(t) ==
    IF \E i \in DOMAIN t : MarkerAt(t, i)
    THEN CHOOSE i \in DOMAIN t :
            MarkerAt(t, i) /\ \A j \in 1..(i - 1) : ~MarkerAt(t, j)
    ELSE 0

\* deepseek1.py:176 re.sub of the marker: every match removed
RECURSIVE MarkerSub(_, _)
MarkerSub(t, i) ==
    IF i > Len(t) THEN <<>>
    ELSE IF MarkerAt(t, i) THEN MarkerSub(t, SkipWs(t, i + 1) + 1)
    ELSE <<t[i]>> \o MarkerSub(t, i + 1)

\* deepseek1.py:179 re.sub of the code-fence markers
FenceSub(t) == SelectSeq(t, LAMBDA x : x \notin Fences)

\* re.IGNORECASE at deepseek1.py:181: a keyword or a table name in lower case
\* matches as its spelling in the pattern does
Fold(x) ==
    CASE x = "select" -> "SELECT"
      [] x = "top" -> "TOP"
      [] x = "from" -> "FROM"
      [] x = "table_topbooksdata" -> "Table_TopBooksData"
      [] OTHER -> x

\* lexemes that begin with the name of a known table and go on
LongerTableNames == {"Table_TopBooksData_Archive", "Table_ProductSearchNewSearch2"}

\* the pattern of deepseek1.py:181 ends with the table name: nothing in it asks
\* for the name to end there
StartsWithKnownTable(x) == Fold(x) \in KnownTables \cup LongerTableNames

\* mutant: the row limit is not asked for
ValidShape_NoTopNeeded(t) ==
    /\ Len(t) >= 1 /\ Fold(t[1]) = "SELECT"
    /\ \E k \in 3..Len(t) :
          /\ Fold(t[k]) = "FROM" /\ t[k - 1] \in Ws
          /\ SkipWs(t, k + 1) > k + 1
          /\ SkipWs(t, k + 1) \in DOMAIN t
          /\ StartsWithKnownTable(t[SkipWs(t, k + 1)])

\* deepseek1.py:181 re.match of the shape: SELECT first, blanks, TOP, blanks, a
\* number, a blank, and somewhere after it FROM, blanks, a known table; what
\* follows the table name is not looked at
ValidShape(t) ==
    LET iTop == SkipWs(t, 2)
        iNum == SkipWs(t, iTop + 1)
    IN  /\ Len(t) >= 1 /\ Fold(t[1]) = "SELECT"
        /\ iTop > 2 /\ iTop \in DOMAIN t /\ Fold(t[iTop]) = "TOP"
        /\ iNum > iTop + 1 /\ iNum \in DOMAIN t /\ t[iNum] \in Digits
        /\ iNum + 1 \in DOMAIN t /\ t[iNum + 1] \in Ws
        /\ \E k \in (iNum + 2)..Len(t) :
              /\ Fold(t[k]) = "FROM"
              /\ SkipWs(t, k + 1) > k + 1
              /\ SkipWs(t, k + 1) \in DOMAIN t
              /\ StartsWithKnownTable(t[SkipWs(t, k + 1)])

\* '%tok%' as the lexemes of a quoted pattern
LikePattern(tok) == <<"'", "%", tok, "%", "'">>

SelectList ==
    <<"Product_Title,", " ", "AuthorName1,", " ", "Category_Name,", " ",
      "Product_SalePrice,", " ", "Product_TitleURl,", " ", "ISBN13">>

\* mutant: the author and category matches are added for every request
FallbackSql_ThreeAlways(q) ==
    LET tok == Split(q)[1]
    IN  <<"SELECT", " ", "TOP", " ", "15", " ">> \o SelectList
          \o <<" ", "FROM", " ", "Table_ProductSearchNewSearch", " ",
               "WHERE", " ", "Product_Title", " ", "LIKE", " ">>
          \o LikePattern(tok)
          \o <<" ", "OR", " ", "AuthorName1", " ", "LIKE", " ">>
          \o LikePattern(tok)
          \o <<" ", "OR", " ", "Category_Name", " ", "LIKE", " ">>
          \o LikePattern(tok)

\* deepseek1.py:184-186, the fallback query
FallbackSql(q) ==
    LET tok == Split(q)[1]
        head == <<"SELECT", " ", "TOP", " ", "15", " ">> \o SelectList
                  \o <<" ", "FROM", " ", "Table_ProductSearchNewSearch", " ",
                       "WHERE", " ", "Product_Title", " ", "LIKE", " ">>
                  \o LikePattern(tok)
    IN  IF Len(Split(q)) > 1
        THEN head \o <<" ", "OR", " ", "AuthorName1", " ", "LIKE", " ">>
                  \o LikePattern(tok)
                  \o <<" ", "OR", " ", "Category_Name", " ", "LIKE", " ">>
                  \o LikePattern(tok)
        ELSE head

----------------------------------------------------------------------------
(* What the external collaborators can answer *)

\* user requests: blank only, one token, two tokens
Requests == { <<" ">>, <<"dune">>, <<"dune", " ", "herbert">> }

\* texts the model generates for a synthesis prompt
SqlWithLine ==
    <<"[fence]sql", "\n", "SELECT", " ", "TOP", " ", "5", " ", "Product_Title", " ",
      "FROM", " ", "Table_TopBooksData", ";", "\n", "[fence]", "\n",
      "loading_line:", " ", "\"Searching\"">>
SqlNoTop ==
    <<"SELECT", " ", "Product_Title", " ", "FROM", " ", "Table_ProductSearchNewSearch">>
SynthTexts == {SqlWithLine, SqlNoTop}

\* a reply of requests.post: an exception of requests, or a response whose body
\* is no JSON, JSON without choices[0].message.content, or JSON with a content
Reply(post, body, content, total_tokens) ==
    [post |-> post, body |-> body, content |-> content, total_tokens |-> total_tokens]

FailedReplies(noContent) ==
    {Reply(e, "none", noContent, 0) : e \in RequestExceptions}
        \cup {Reply("OK", b, noContent, 0) : b \in {"notjson", "nochoices"}}

SynthReplies ==
    FailedReplies(<<>>) \cup {Reply("OK", "json", c, 7) : c \in SynthTexts}

\* a candidate record
Book(title) == [Product_Title |-> title]
Shelf(n, first) == [i \in 1..n |-> Book(first + i - 1)]

\* what execute_sql_query can do: raise, or return rows (none, two, more than the
\* filter looks at)
DbReplies ==
    { [raised |-> TRUE, exc |-> "pyodbc.Error", rows |-> <<>>] }
        \cup { [raised |-> FALSE, exc |-> "", rows |-> r] :
                 r \in {<<>>, Shelf(2, 1), Shelf(MaxRows, 1)} }

\* the content of a filter reply: no array-shaped text, an array-shaped text that
\* is no JSON (a leading comma, a leading zero), or a JSON array of numbers, among
\* them one that names a row twice
FilterContent(shape, array) == [shape |-> shape, array |-> array]
FilterTexts ==
    { FilterContent("no_array", <<>>), FilterContent("not_json_array", <<>>) }
        \cup { FilterContent("array", a) :
                 a \in { <<>>, <<2, 1>>, <<1, 1>>, <<0, MaxRows, MaxRows + 1>> } }

FilterReplies ==
    FailedReplies(FilterContent("none", <<>>))
        \cup {Reply("OK", "json", c, 3) : c \in FilterTexts}

\* replies to the preamble prompt; "no_api_key" is services.py:30
PreambleReplies ==
    { Reply("no_api_key", "none", "", 0), Reply("Timeout", "none", "", 0),
      Reply("HTTPError", "none", "", 0), Reply("OK", "notjson", "", 0),
      Reply("OK", "nochoices", "", 0), Reply("OK", "json", "Great choice!", 5) }

----------------------------------------------------------------------------
(* get_sql_from_deepseek, deepseek1.py:42-198 *)

SynthResult(sql_text, loading_line, token_used, via) ==
    [raised |-> FALSE, exc |-> "", sql_text |-> sql_text,
     loading_line |-> loading_line, token_used |-> token_used, via |-> via]

SynthRaised(e) ==
    [raised |-> TRUE, exc |-> e, sql_text |-> <<>>, loading_line |-> None,
     token_used |-> 0, via |-> "miss"]

NoSynth == SynthResult(<<>>, None, 0, "none")

\* mutant: a hit reports the tokens of a model call
SqlCacheHit_CountsTokens(cache, q) == SynthResult(cache[q][1], cache[q][2], 7, "hit")

\* deepseek1.py:58-62
SqlCacheHit(cache, q) == SynthResult(cache[q][1], cache[q][2], 0, "hit")

\* mutant: a transport failure is answered with the fallback query
OnSqlPostFailure_Fallback(q, e) ==
    IF Split(q) = <<>> THEN SynthRaised("IndexError")
    ELSE SynthResult(FallbackSql(q), None, 0, "miss")

\* deepseek1.py:155-162: both handlers raise Exception
OnSqlPostFailure(q, e) == SynthRaised("Exception")

\* deepseek1.py:181-188
ShapeOrFallback(q, sql_text, loading_line, token_used) ==
    IF ValidShape(sql_text)
    THEN SynthResult(sql_text, loading_line, token_used, "miss")
    ELSE IF Split(q) = <<>>
         THEN SynthRaised("IndexError")
         ELSE SynthResult(FallbackSql(q), loading_line, token_used, "miss")

\* deepseek1.py:165-179: the generated text without the marker of the status
\* message and without code-fence markers, stripped
SqlTextOf(content) ==
    LET full == Strip(content)
    IN  Strip(FenceSub(IF MarkerSearch(full) # 0 THEN Strip(MarkerSub(full, 1))
                       ELSE full))

\* mutant: without a marker the status message is the empty string
LoadingLineOf_EmptyWhenAbsent(content) ==
    LET full == Strip(content)
        m == MarkerSearch(full)
    IN  IF m # 0 THEN Unquote(full[SkipWs(full, m + 1)]) ELSE ""

\* deepseek1.py:165-176: the status message is None until a marker is found in
\* the generated text, and then the stripped text after the marker
LoadingLineOf(content) ==
    LET full == Strip(content)
        m == MarkerSearch(full)
    IN  IF m # 0 THEN Unquote(full[SkipWs(full, m + 1)]) ELSE None

\* deepseek1.py:141-188: the model call and what is made of its reply
SqlFromReply(q, reply) ==
    IF reply.post # "OK" /\ IsInstance(reply.post, "RequestException")
    THEN OnSqlPostFailure(q, reply.post)
    ELSE IF reply.body = "notjson" THEN SynthRaised("JSONDecodeError")
    ELSE IF reply.body = "nochoices" THEN SynthRaised("KeyError")
    ELSE ShapeOrFallback(q, SqlTextOf(reply.content), LoadingLineOf(reply.content),
                         reply.total_tokens)

----------------------------------------------------------------------------
(* filter_books_with_deepseek, deepseek1.py:200-308 *)

FilterResult(indices, via) ==
    [raised |-> FALSE, exc |-> "", indices |-> indices, via |-> via]
FilterRaised(e) == [raised |-> TRUE, exc |-> e, indices |-> <<>>, via |-> "raised"]
NoFilter == FilterResult(<<>>, "none")

\* mutant: the candidate list is not truncated
BooksToProcess_NoLimit(books) == books

\* deepseek1.py:214
BooksToProcess(books) == IF Len(books) > FILTER_LIMIT THEN SubSeq(books, 1, FILTER_LIMIT) ELSE books

\* mutant: the titles of the candidates are left out of the key
CacheKey_RequestOnly(q, books_to_process) == <<q, <<>>>>

\* deepseek1.py:217
CacheKey(q, books_to_process) ==
    <<q, [i \in DOMAIN books_to_process |-> books_to_process[i].Product_Title]>>

\* deepseek1.py:276, 280, 304, 308
FailOpen(books_to_process) == FilterResult(PyRange(Len(books_to_process)), "fail_open")

\* mutant: the upper bound of the range check is missing
KeepIndex_NoUpperBound(i, n) == 0 < i

\* deepseek1.py:292
KeepIndex(i, n) == 0 < i /\ i <= n

ValidIndices(selected_indices, n) ==
    LET kept == SelectSeq(selected_indices, LAMBDA i : KeepIndex(i, n))
    IN  [k \in DOMAIN kept |-> kept[k] - 1]

\* deepseek1.py:259-308 without the cache write
FilterFromReply(books_to_process, reply) ==
    IF reply.post # "OK" /\ IsInstance(reply.post, "RequestException")
    THEN FailOpen(books_to_process)
    ELSE IF reply.body = "notjson" THEN FilterRaised("JSONDecodeError")
    ELSE IF reply.body = "nochoices" THEN FilterRaised("KeyError")
    ELSE IF reply.content.shape = "array"
         THEN FilterResult(ValidIndices(reply.content.array, Len(books_to_process)),
                           "parsed")
         ELSE FailOpen(books_to_process)

\* mutant: a call that failed open is made again
AfterFilterPost_Retry(result) ==
    IF ~result.raised /\ result.via = "parsed" THEN "filter_capacity"
    ELSE IF result.via = "fail_open" THEN "filter_post" ELSE "respond"

\* mutant: a fail-open answer is cached too
ReachesCacheWrite_AlsoFailOpen(result) == ~result.raised

\* deepseek1.py:297: only a parsed answer reaches the cache write
ReachesCacheWrite(result) == ~result.raised /\ result.via = "parsed"

\* deepseek1.py:272-308: where the call goes after the reply: to the cache write
\* or straight to its return, never back to the model call
AfterFilterPost(result) ==
    IF ReachesCacheWrite(result) THEN "filter_capacity" ELSE "respond"

----------------------------------------------------------------------------
(* AIService.query_deepseek, services.py:25-85: every failure is returned as text *)

QueryDeepseek(reply) ==
    CASE reply.post = "no_api_key" ->
            [raised |-> FALSE, text |-> "My apologies! My brain is on a brief break."]
      [] reply.post = "HTTPError" ->
            [raised |-> FALSE, text |-> "Oops! trouble dialing up my knowledge base"]
      [] reply.post \in RequestExceptions \ {"HTTPError"} ->
            [raised |-> FALSE, text |-> "My apologies! trouble reaching the larger library"]
      [] reply.post = "OK" /\ reply.body = "notjson" ->
            [raised |-> FALSE, text |-> "Oops! I heard gibberish."]
      [] reply.post = "OK" /\ reply.body = "nochoices" ->
            [raised |-> FALSE, text |-> "My apologies! a message that didn't make sense"]
      [] OTHER -> [raised |-> FALSE, text |-> reply.content]

----------------------------------------------------------------------------
(* BookRecommendationService.recommend_books, book_service.py:16-143 *)

Response(kind, loading_line, opening, books) ==
    [kind |-> kind, loading_line |-> loading_line, opening |-> opening,
     books |-> books, exc |-> ""]

NoResponse == Response("none", "", "", <<>>)

\* an exception that leaves recommend_books
Escapes(e) == [kind |-> "raise", loading_line |-> "", opening |-> "", books |-> <<>>,
               exc |-> e]

\* book_service.py:34
LoadingLine(result) == IF result.loading_line \in {None, ""} THEN "" ELSE result.loading_line

\* mutant: the handlers catch the exceptions of requests only
CaughtByOrchestrator_OnlyRequests(e) == IsInstance(e, "RequestException")

\* book_service.py:37, 59, 73, 103: every handler of recommend_books is
\* "except Exception"
CaughtByOrchestrator(e) == IsInstance(e, "Exception")

\* book_service.py:39
UnderstandingMessage == Response("understanding", "", "", <<>>)
\* mutant: a failed execution is answered like an empty result set
SnagMessage_AsNoMatches(loading_line) == Response("no_matches", loading_line, "", <<>>)

\* book_service.py:61
SnagMessage(loading_line) == Response("snag", loading_line, "", <<>>)
\* book_service.py:65
NoMatchesMessage(loading_line) == Response("no_matches", loading_line, "", <<>>)
\* book_service.py:82
NoneRightMessage(loading_line) == Response("none_right", loading_line, "", <<>>)
\* book_service.py:22
CoffeeBreakMessage == Response("coffee_break", "", "", <<>>)

\* book_service.py:71
SelectBooks(rows, selected_indices) ==
    LET kept == SelectSeq(selected_indices, LAMBDA i : i < Len(rows))
    IN  [k \in DOMAIN kept |-> rows[kept[k] + 1]]

\* mutant: an empty selection is replaced by the first rows
FinalBooks_FirstRowsWhenEmpty(rows, result) ==
    IF result.raised \/ SelectBooks(rows, result.indices) = <<>>
    THEN Take(rows, FALLBACK_ROWS)
    ELSE SelectBooks(rows, result.indices)

\* book_service.py:69-77: the filter's list applied, or the first rows when it raised
FinalBooks(rows, result) ==
    IF result.raised THEN Take(rows, FALLBACK_ROWS)
    ELSE SelectBooks(rows, result.indices)

\* book_service.py:97-106
Opening(answer) ==
    IF answer.raised THEN "Here are some books I found for you:" ELSE answer.text

----------------------------------------------------------------------------
(* sql_utils.py: extract_sql_query and clean_sql *)

\* the lexemes of the model that are made of word characters only
Words ==
    {"SELECT", "select", "TOP", "FROM", "WHERE", "LIKE", "AND", "OR", "5", "15",
     "X", "Product_Title", "AuthorName1", "Category_Name", "a", "b", "dune",
     "herbert", "ISBN13", "top", "from", "table_topbooksdata", "DISTINCT", "DROP",
     "TABLE", "Table_Other", "AS"} \cup KnownTables \cup LongerTableNames
IsWord(x) == x \in Words

\* the keyword of sql_utils.py:5, matched with IGNORECASE
SelectWords == {"SELECT", "select"}

\* the first position >= i of t that holds x (0 when none)
RECURSIVE Find(_, _, _)
Find(t, x, i) ==
    IF i > Len(t) THEN 0
    ELSE IF t[i] = x THEN i ELSE Find(t, x, i + 1)

\* position i starts a match of sql_utils.py:5: the keyword, whitespace, and a
\* terminator somewhere after it
StatementAt(t, i) ==
    /\ i \in DOMAIN t /\ t[i] \in SelectWords
    /\ i + 1 \in DOMAIN t /\ t[i + 1] \in Ws
    /\ Find(t, ";", i + 2) # 0

\* sql_utils.py:5 re.search: the first match, 0 when none
StatementSearch(t) ==
    IF \E i \in DOMAIN t : StatementAt(t, i)
    THEN CHOOSE i \in DOMAIN t :
            StatementAt(t, i) /\ \A j \in 1..(i - 1) : ~StatementAt(t, j)
    ELSE 0

\* sql_utils.py:3-11: the statement up to its first terminator, or the text
\* without code-fence markers, stripped
extract_sql_query(text) ==
    LET m == StatementSearch(text)
    IN  IF m # 0 THEN SubSeq(text, m, Find(text, ";", m + 2))
        ELSE Strip(FenceSub(text))

\* sql_utils.py:19 re.sub: every run of whitespace becomes one blank
RECURSIVE CollapseWs(_, _)
CollapseWs(t, i) ==
    IF i > Len(t) THEN <<>>
    ELSE IF t[i] \in Ws THEN <<" ">> \o CollapseWs(t, SkipWs(t, i))
    ELSE <<t[i]>> \o CollapseWs(t, i + 1)

\* pattern.split('%') without the empty pieces
RECURSIVE Terms(_)
Terms(pattern) ==
    IF pattern = <<>> THEN <<>>
    ELSE LET k == Find(pattern, "%", 1)
             head == IF k = 0 THEN pattern ELSE SubSeq(pattern, 1, k - 1)
             rest == IF k = 0 THEN <<>> ELSE SubSeq(pattern, k + 1, Len(pattern))
         IN  (IF head = <<>> THEN <<>> ELSE <<head>>) \o Terms(rest)

\* column LIKE '%term%'
Condition(column, term) ==
    <<column, " ", "LIKE", " ", "'", "%">> \o term \o <<"%", "'">>

\* ' AND '.join(conditions)
RECURSIVE JoinAnd(_)
JoinAnd(conditions) ==
    IF Len(conditions) = 1 THEN conditions[1]
    ELSE conditions[1] \o <<" ", "AND", " ">> \o JoinAnd(Tail(conditions))

\* mutant: a pattern of several terms keeps its first term only
fix_like_pattern_FirstTerm(column, pattern) ==
    IF Terms(pattern) # <<>> THEN Condition(column, Terms(pattern)[1])
    ELSE Condition(column, pattern)

\* sql_utils.py:22-34
fix_like_pattern(column, pattern) ==
    IF Find(pattern, "%", 1) # 0 /\ Len(Terms(pattern)) > 1
    THEN <<"(">> \o JoinAnd([k \in DOMAIN Terms(pattern) |->
                                Condition(column, Terms(pattern)[k])]) \o <<")">>
    ELSE Condition(column, pattern)

\* the position of the closing quote when position i starts a match of
\* sql_utils.py:37 (0 when it does not): a word, whitespace, LIKE, whitespace, a
\* quote and a percent sign, one or more lexemes that are no quote, a percent sign
\* and a quote
LikeEnd(t, i) ==
    LET l == SkipWs(t, i + 1)
        o == SkipWs(t, l + 1)
        q == Find(t, "'", o + 2)
    IN  IF /\ i \in DOMAIN t /\ IsWord(t[i])
           /\ l > i + 1 /\ l \in DOMAIN t /\ t[l] = "LIKE"
           /\ o > l + 1 /\ o + 1 \in DOMAIN t /\ t[o] = "'" /\ t[o + 1] = "%"
           /\ q >= o + 4 /\ t[q - 1] = "%"
        THEN q ELSE 0

\* sql_utils.py:37 re.sub: every match replaced, left to right
RECURSIVE LikeSub(_, _)
LikeSub(t, i) ==
    IF i > Len(t) THEN <<>>
    ELSE IF LikeEnd(t, i) # 0
         THEN LET q == LikeEnd(t, i)
                  o == SkipWs(t, SkipWs(t, i + 1) + 1)
              IN  fix_like_pattern(t[i], SubSeq(t, o + 2, q - 2)) \o LikeSub(t, q + 1)
         ELSE <<t[i]>> \o LikeSub(t, i + 1)

\* sql_text.count(x)
Count(t, x) == Len(SelectSeq(t, LAMBDA y : y = x))

\* sql_text.endswith(";")
EndsWithTerminator(t) == t # <<>> /\ t[Len(t)] = ";"

\* sql_text.rstrip(chars)
RECURSIVE RStrip(_, _)
RStrip(t, chars) ==
    IF t # <<>> /\ t[Len(t)] \in chars THEN RStrip(SubSeq(t, 1, Len(t) - 1), chars)
    ELSE t

\* sql_utils.py:40-43
BalanceQuotes(t) ==
    IF Count(t, "'") % 2 # 0
    THEN LET closed == RStrip(t, {";", "'"}) \o <<"'">>
         IN  IF EndsWithTerminator(closed) THEN closed ELSE closed \o <<";">>
    ELSE t

\* mutant: the text is returned without a terminator check
EnsureTerminator_Skipped(t) == t

\* mutant: the trailing terminators are replaced by one
EnsureTerminator_Single(t) == RStrip(t, {";"}) \o <<";">>

\* sql_utils.py:46-47
EnsureTerminator(t) == IF EndsWithTerminator(t) THEN t ELSE t \o <<";">>

\* sql_utils.py:16-37: the text that reaches the quote-balance step
BeforeBalance(sql_text) == LikeSub(Strip(CollapseWs(extract_sql_query(sql_text), 1)), 1)

\* sql_utils.py:13-49
clean_sql(sql_text) == EnsureTerminator(BalanceQuotes(BeforeBalance(sql_text)))

----------------------------------------------------------------------------
(* get_sql_from_deepseek (on an empty sql_cache) and clean_sql called on their    *)
(* own, on arguments drawn from bounded sets                                      *)

\* the longest text made of any lexemes of ShortAlphabet
MaxLen == 3
\* the most segments a LIKE pattern is made of
MaxSegments == 2

ShortAlphabet == {"SELECT", " ", "\n", ";", "'", "[fence]", "[fence]sql", "a"}
ShortTexts == UNION { [1..n -> ShortAlphabet] : n \in 0..MaxLen }

\* the clauses column LIKE '%s1%...%sn%'
Columns == {"X", "Product_Title"}
Segments == { <<"a">>, <<"b">>, <<"a", " ", "b">> }
SegmentLists == UNION { [1..n -> Segments] : n \in 1..MaxSegments }
Clause(column, segments) == [column |-> column, segments |-> segments]
Clauses == { Clause(c, s) : c \in Columns, s \in SegmentLists }
SecondClauses ==
    { Clause("AuthorName1", <<<<"b">>>>), Clause("AuthorName1", << <<"b">>, <<"a">> >>) }
ClauseLists == { <<c>> : c \in Clauses } \cup { <<c, d>> : c \in Clauses, d \in SecondClauses }

\* s1%...%sn
RECURSIVE PatternOf(_)
PatternOf(segments) ==
    IF Len(segments) = 1 THEN segments[1]
    ELSE segments[1] \o <<"%">> \o PatternOf(Tail(segments))

ClauseText(c) == Condition(c.column, PatternOf(c.segments))

\* the texts before and after the clauses: none, or a statement around them
Prefixes ==
    { <<>>, <<"SELECT", " ", "TOP", " ", "5", " ", "X", " ", "FROM", " ",
              "Table_TopBooksData", " ", "WHERE", " ">> }
Suffixes == { <<>>, <<";">> }

\* the texts of a list joined by OR
RECURSIVE JoinOr(_)
JoinOr(texts) ==
    IF Len(texts) = 1 THEN texts[1]
    ELSE texts[1] \o <<" ", "OR", " ">> \o JoinOr(Tail(texts))

TextAround(prefix, texts, suffix) == prefix \o JoinOr(texts) \o suffix

\* the texts of the clauses of a list
ClauseTextsOf(clauses) == [k \in DOMAIN clauses |-> ClauseText(clauses[k])]

ClauseTexts ==
    { TextAround(pre, ClauseTextsOf(cs), suf) :
        pre \in Prefixes, cs \in ClauseLists, suf \in Suffixes }

\* texts with doubled blanks, a line break, a doubled percent sign, a statement
\* with an open quote, and text after the statement
OtherTexts ==
    { <<"X", " ", " ", "LIKE", "\n", "'", "%", "a", "%", "%", "b", "%", "'">>,
      <<"SELECT", " ", "X", " ", "FROM", " ", "Table_TopBooksData", " ", "WHERE", " ",
        "X", " ", "LIKE", " ", "'", "%", "a", ";", "\n", "a">>,
      <<"[fence]sql", "\n", "select", " ", "X", ";", "\n", "[fence]">>,
      <<"X", " ", "LIKE", " ", "'", "%", "a", "%", "'", ";", ";">> }

\* user requests: also the empty string and blanks around and between the tokens
RequestsWide == Requests \cup { <<>>, <<" ", "dune", " ", "\n", "herbert", " ">> }

\* generated texts: also an empty one, a statement alone, a fenced text without
\* a statement
SqlAlone ==
    <<"SELECT", " ", "TOP", " ", "15", " ", "Product_Title", " ", "FROM", " ",
      "Table_ProductSearchNewSearch", ";">>
\* a statement that selects a text constant which holds a terminator
SqlWithQuotedTerminator ==
    <<"SELECT", " ", "TOP", " ", "5", " ", "'", ";", "'", " ", "AS", " ", "X", " ",
      "FROM", " ", "Table_TopBooksData">>
GeneratedTexts ==
    SynthTexts \cup { <<>>, SqlAlone, <<" ", "\n">> \o SqlAlone \o <<"\n">>,
                      <<"[fence]sql", "\n", "[fence]">>, SqlWithQuotedTerminator }

\* candidate queries for the shape check: blanks around them or not, one blank
\* or a line break and a blank between the keywords, keywords in upper or lower
\* case, with the row limit, without it, with DISTINCT before it or without its
\* number, a table, and what follows the table name
Candidate(lead, sep, lower, limit, table, tail) ==
    [lead |-> lead, sep |-> sep, lower |-> lower, limit |-> limit, table |-> table,
     tail |-> tail]
Limits == {"top", "none", "distinct_top", "top_without_number"}
Tables == KnownTables \cup LongerTableNames \cup {"table_topbooksdata", "Table_Other"}
FurtherStatement == <<";", " ", "DROP", " ", "TABLE", " ", "X">>
Tails ==
    { <<>>, <<";">>, FurtherStatement,
      <<" ", "WHERE", " ", "X", " ", "LIKE", " ", "'", "%", "a", "%", "'">> }
Candidates ==
    { Candidate(lead, sep, lower, limit, table, tail) :
        lead \in {<<>>, <<" ", "\n">>}, sep \in {<<" ">>, <<"\n", " ">>},
        lower \in BOOLEAN, limit \in Limits, table \in Tables, tail \in Tails }

LimitText(c) ==
    LET top == IF c.lower THEN "top" ELSE "TOP"
    IN  CASE c.limit = "top" -> <<top>> \o c.sep \o <<"5">> \o c.sep
          [] c.limit = "none" -> <<>>
          [] c.limit = "distinct_top" ->
                <<"DISTINCT">> \o c.sep \o <<top>> \o c.sep \o <<"5">> \o c.sep
          [] c.limit = "top_without_number" -> <<top>> \o c.sep

\* the statement of a candidate, without the blanks around it
CandidateStatement(c) ==
    <<IF c.lower THEN "select" ELSE "SELECT">> \o c.sep \o LimitText(c)
        \o <<"Product_Title">> \o c.sep \o <<IF c.lower THEN "from" ELSE "FROM">>
        \o c.sep \o <<c.table>> \o c.tail

CandidateText(c) == c.lead \o CandidateStatement(c) \o c.lead

NoReply == Reply("none", "none", <<>>, 0)
Call(fn, q, reply, sql_text) ==
    [fn |-> fn, user_query |-> q, reply |-> reply, sql_text |-> sql_text]
NoCall == Call("none", <<>>, NoReply, <<>>)

Calls ==
    { Call("get_sql_from_deepseek", q, r, <<>>) :
        q \in RequestsWide,
        r \in FailedReplies(<<>>) \cup {Reply("OK", "json", c, 7) : c \in GeneratedTexts} }
      \cup
    { Call("get_sql_from_deepseek", <<"dune">>, Reply("OK", "json", CandidateText(c), 7),
           <<>>) : c \in Candidates }
      \cup
    { Call("clean_sql", <<>>, NoReply, t) :
        t \in ShortTexts \cup ClauseTexts \cup OtherTexts
                \cup {FallbackSql(q) : q \in Requests \ {<<" ">>}} }

Returned(value) == [done |-> TRUE, value |-> value]
\* what the same call returned when it was made a second time, and what it had
\* returned the first time
ReturnedAgain(first, value) == [done |-> TRUE, value |-> value, first |-> first]
\* what the call returned, and what became of it on its way to the data source
ReturnedAndCleaned(value, text) == [done |-> TRUE, value |-> value, clean_query |-> text]
NoResult == [done |-> FALSE, value |-> <<>>]

----------------------------------------------------------------------------
(* The request threads *)

InitPipeline ==
    /\ sql_cache = <<>>
    /\ filter_cache = <<>>
    /\ pc = [p \in Procs |-> "idle"]
    /\ user_query = [p \in Procs |-> <<>>]
    /\ synth = [p \in Procs |-> NoSynth]
    /\ clean_query = [p \in Procs |-> <<>>]
    /\ db_results = [p \in Procs |-> <<>>]
    /\ filt = [p \in Procs |-> NoFilter]
    /\ ret = [p \in Procs |-> NoResponse]
    /\ stages = [p \in Procs |-> <<>>]
    /\ served = <<>>

Init == InitPipeline /\ call = NoCall /\ returned = NoResult

Idle(p) == pc[p] \in {"idle", "done"}

\* recommend_books returns r
Return(p, r) ==
    /\ ret' = [ret EXCEPT ![p] = r]
    /\ pc' = [pc EXCEPT ![p] = "done"]

Stage(p, name, outcome) == stages' = [stages EXCEPT ![p] = Append(@, <<name, outcome>>)]

\* book_service.py:16-25: a request arrives.  A host with one worker (alone) serves
\* request after request on it; in the threaded host each thread serves a request
\* and they overlap.
Enter(p, alone) ==
    /\ IF alone THEN Idle(p) /\ \A o \in Procs \ {p} : pc[o] = "idle"
                ELSE pc[p] = "idle"
    /\ \E q \in Requests, cursor_ok \in BOOLEAN :
          /\ user_query' = [user_query EXCEPT ![p] = q]
          /\ synth' = [synth EXCEPT ![p] = NoSynth]
          /\ clean_query' = [clean_query EXCEPT ![p] = <<>>]
          /\ db_results' = [db_results EXCEPT ![p] = <<>>]
          /\ filt' = [filt EXCEPT ![p] = NoFilter]
          /\ stages' = [stages EXCEPT ![p] = <<>>]
          /\ IF cursor_ok
             THEN /\ pc' = [pc EXCEPT ![p] = "sql_lookup"]
                  /\ ret' = [ret EXCEPT ![p] = NoResponse]
             ELSE Return(p, CoffeeBreakMessage)
    /\ UNCHANGED <<sql_cache, filter_cache, served>>
    /\ UNCHANGED fvars

Begin(p) == Enter(p, FALSE)
BeginAlone(p) == Enter(p, TRUE)

\* deepseek1.py:58-62, book_service.py:33-34
SqlLookup(p) ==
    /\ pc[p] = "sql_lookup"
    /\ UNCHANGED fvars
    /\ UNCHANGED clean_query
    /\ IF user_query[p] \in DOMAIN sql_cache
       THEN /\ synth' = [synth EXCEPT ![p] = SqlCacheHit(sql_cache, user_query[p])]
            /\ pc' = [pc EXCEPT ![p] = "execute"]
       ELSE /\ pc' = [pc EXCEPT ![p] = "sql_post"]
            /\ UNCHANGED synth
    /\ UNCHANGED <<sql_cache, filter_cache, user_query, db_results, filt, ret, stages,
                   served>>

\* deepseek1.py:141-188, book_service.py:37-39
SqlPost(p) ==
    /\ pc[p] = "sql_post"
    /\ UNCHANGED fvars
    /\ UNCHANGED clean_query
    /\ \E reply \in SynthReplies :
          LET result == SqlFromReply(user_query[p], reply)
          IN  /\ synth' = [synth EXCEPT ![p] = result]
              /\ IF result.raised
                 THEN Return(p, IF CaughtByOrchestrator(result.exc)
                                THEN UnderstandingMessage
                                ELSE Escapes(result.exc))
                 ELSE /\ pc' = [pc EXCEPT ![p] = "sql_capacity"]
                      /\ UNCHANGED ret
              /\ Stage(p, "synthesis_call", reply.post)
    /\ UNCHANGED <<sql_cache, filter_cache, user_query, db_results, filt, served>>

\* deepseek1.py:191
SqlCapacity(p) ==
    /\ pc[p] = "sql_capacity"
    /\ UNCHANGED fvars
    /\ UNCHANGED clean_query
    /\ pc' = [pc EXCEPT ![p] = IF Cardinality(DOMAIN sql_cache) < MAX_CACHE_SIZE
                               THEN "sql_store" ELSE "execute"]
    /\ UNCHANGED <<sql_cache, filter_cache, user_query, synth, db_results, filt, ret,
                   stages, served>>

\* deepseek1.py:192
SqlStore(p) ==
    /\ pc[p] = "sql_store"
    /\ UNCHANGED fvars
    /\ UNCHANGED clean_query
    /\ sql_cache' = DictSet(sql_cache, user_query[p],
                            <<synth[p].sql_text, synth[p].loading_line>>)
    /\ served' = IF user_query[p] \in DOMAIN served THEN served
                 ELSE DictSet(served, user_query[p],
                              <<synth[p].sql_text, synth[p].loading_line>>)
    /\ pc' = [pc EXCEPT ![p] = "execute"]
    /\ UNCHANGED <<filter_cache, user_query, synth, db_results, filt, ret, stages>>

\* mutant: the data source is given the text of the synthesizer as it came
QueryToExecute_Raw(sql_text_raw) == sql_text_raw

\* the query texts get_sql_from_deepseek can return to a request thread
ThreadQueryTexts ==
    { r.sql_text : r \in { x \in { SqlFromReply(q, reply) : q \in Requests,
                                                           reply \in SynthReplies } :
                              ~x.raised } }

\* clean_sql of each of them, worked out once
CleanedThreadQueryTexts == [t \in ThreadQueryTexts |-> clean_sql(t)]

\* book_service.py:46, 57: the data source is given the normalized text
QueryToExecute(sql_text_raw) ==
    IF sql_text_raw \in ThreadQueryTexts THEN CleanedThreadQueryTexts[sql_text_raw]
    ELSE clean_sql(sql_text_raw)

\* book_service.py:46-65: clean_sql, execute_sql_query and the two early returns
Execute(p) ==
    /\ pc[p] = "execute"
    /\ UNCHANGED fvars
    /\ clean_query' = [clean_query EXCEPT ![p] = QueryToExecute(synth[p].sql_text)]
    /\ \E reply \in DbReplies :
          /\ db_results' = [db_results EXCEPT ![p] = reply.rows]
          /\ IF reply.raised
             THEN Return(p, IF CaughtByOrchestrator(reply.exc)
                            THEN SnagMessage(LoadingLine(synth[p]))
                            ELSE Escapes(reply.exc))
             ELSE IF reply.rows = <<>>
                  THEN Return(p, NoMatchesMessage(LoadingLine(synth[p])))
                  ELSE /\ pc' = [pc EXCEPT ![p] = "filter_lookup"]
                       /\ UNCHANGED ret
          /\ stages' = [stages EXCEPT ![p] =
                 @ \o << <<"normalize", "OK">>,
                         <<"data_source", IF reply.raised THEN reply.exc ELSE "OK">> >>]
    /\ UNCHANGED <<sql_cache, filter_cache, user_query, synth, filt, served>>

\* deepseek1.py:214-221
FilterLookup(p) ==
    /\ pc[p] = "filter_lookup"
    /\ UNCHANGED fvars
    /\ UNCHANGED clean_query
    /\ LET key == CacheKey(user_query[p], BooksToProcess(db_results[p]))
       IN  IF key \in DOMAIN filter_cache
           THEN /\ filt' = [filt EXCEPT ![p] = FilterResult(filter_cache[key], "hit")]
                /\ pc' = [pc EXCEPT ![p] = "respond"]
           ELSE /\ pc' = [pc EXCEPT ![p] = "filter_post"]
                /\ UNCHANGED filt
    /\ UNCHANGED <<sql_cache, filter_cache, user_query, synth, db_results, ret, stages,
                   served>>

\* deepseek1.py:259-295, 301-308, book_service.py:73-77
FilterPost(p) ==
    /\ pc[p] = "filter_post"
    /\ UNCHANGED fvars
    /\ UNCHANGED clean_query
    /\ \E reply \in FilterReplies :
          LET result == FilterFromReply(BooksToProcess(db_results[p]), reply)
          IN  /\ filt' = [filt EXCEPT ![p] = result]
              /\ IF result.raised /\ ~CaughtByOrchestrator(result.exc)
                 THEN Return(p, Escapes(result.exc))
                 ELSE /\ pc' = [pc EXCEPT ![p] = AfterFilterPost(result)]
                      /\ UNCHANGED ret
              /\ Stage(p, "filter_call", reply.post)
    /\ UNCHANGED <<sql_cache, filter_cache, user_query, synth, db_results, served>>

\* deepseek1.py:297
FilterCapacity(p) ==
    /\ pc[p] = "filter_capacity"
    /\ UNCHANGED fvars
    /\ UNCHANGED clean_query
    /\ pc' = [pc EXCEPT ![p] = IF Cardinality(DOMAIN filter_cache) < MAX_FILTER_CACHE_SIZE
                               THEN "filter_store" ELSE "respond"]
    /\ UNCHANGED <<sql_cache, filter_cache, user_query, synth, db_results, filt, ret,
                   stages, served>>

\* deepseek1.py:298
FilterStore(p) ==
    /\ pc[p] = "filter_store"
    /\ UNCHANGED fvars
    /\ UNCHANGED clean_query
    /\ filter_cache' = DictSet(filter_cache,
                               CacheKey(user_query[p], BooksToProcess(db_results[p])),
                               filt[p].indices)
    /\ pc' = [pc EXCEPT ![p] = "respond"]
    /\ UNCHANGED <<sql_cache, user_query, synth, db_results, filt, ret, stages, served>>

\* book_service.py:71-143: the selection, the preamble call and the assembly
Respond(p) ==
    /\ pc[p] = "respond"
    /\ UNCHANGED fvars
    /\ UNCHANGED clean_query
    /\ LET final_books == FinalBooks(db_results[p], filt[p])
       IN  IF final_books = <<>>
           THEN /\ Return(p, NoneRightMessage(LoadingLine(synth[p])))
                /\ UNCHANGED stages
           ELSE \E reply \in PreambleReplies :
                   /\ Return(p, Response("books", LoadingLine(synth[p]),
                                         Opening(QueryDeepseek(reply)), final_books))
                   /\ Stage(p, "preamble_call", reply.post)
    /\ UNCHANGED <<sql_cache, filter_cache, user_query, synth, db_results, filt, served>>

Step(p) ==
    \/ SqlLookup(p) \/ SqlPost(p) \/ SqlCapacity(p) \/ SqlStore(p)
    \/ Execute(p)
    \/ FilterLookup(p) \/ FilterPost(p) \/ FilterCapacity(p) \/ FilterStore(p)
    \/ Respond(p)

\* one request at a time, any number of them
Next == \E p \in Procs : BeginAlone(p) \/ Step(p)
Spec == Init /\ [][Next]_vars

\* the timeout an external call is made with, in seconds (0: none is given):
\* deepseek1.py:147 and :265 pass one, services.py:47 and db_utils.py:13 do not
TimeoutOf(stage) ==
    CASE stage = "synthesis_call" -> 60
      [] stage = "filter_call" -> 20
      [] stage = "preamble_call" -> 0
      [] stage = "data_source" -> 0

Bounded(stage) == TimeoutOf(stage) > 0

\* a thread goes on with every step of its own, and a call made with a timeout
\* comes back; a call made without one comes back only if the collaborator
\* answers
Fairness ==
    \A p \in Procs :
        /\ WF_vars(SqlLookup(p)) /\ WF_vars(SqlCapacity(p)) /\ WF_vars(SqlStore(p))
        /\ WF_vars(FilterLookup(p)) /\ WF_vars(FilterCapacity(p))
        /\ WF_vars(FilterStore(p))
        /\ WF_vars(Bounded("synthesis_call") /\ SqlPost(p))
        /\ WF_vars(Bounded("data_source") /\ Execute(p))
        /\ WF_vars(Bounded("filter_call") /\ FilterPost(p))
        /\ WF_vars(Respond(p) /\ (Bounded("preamble_call") \/ stages'[p] = stages[p]))

SpecFair == Init /\ [][Next]_vars /\ Fairness

\* the threaded host (app.py:200): the requests of the threads overlap
NextThreads == \E p \in Procs : Begin(p) \/ Step(p)
SpecThreads == Init /\ [][NextThreads]_vars

\* the variables of the request threads
pvars == <<sql_cache, filter_cache, pc, user_query, synth, clean_query, db_results,
           filt, ret, stages, served>>

----------------------------------------------------------------------------
(* FormatterService.parse_book_indices, services.py:575-603.  The input is a text of
   single characters, or a value that is no text. *)

MaxInput == 4
MaxBooks == 2

DigitChars == {"0", "1", "2"}
InputAlphabet == DigitChars \cup {"x", ",", " ", "\n"}

\* a Python value: a str with its characters, or a value of another type
Str(chars) == [type |-> "str", chars |-> chars]
NotStr(type) == [type |-> type, chars |-> <<>>]

RECURSIVE InputTexts(_)
InputTexts(n) ==
    IF n = 0 THEN {<<>>}
    ELSE InputTexts(n - 1)
           \cup { Append(t, ch) : t \in { u \in InputTexts(n - 1) : Len(u) = n - 1 },
                                  ch \in InputAlphabet }

UserInputs == { Str(t) : t \in InputTexts(MaxInput) } \cup { NotStr("NoneType"), NotStr("int") }

\* services.py:582-583: commas and whitespace separate the tokens of the input
Separators == {","} \cup Ws

\* services.py:582 re.sub: every comma becomes a blank
CommaSub(t) == [i \in DOMAIN t |-> IF t[i] = "," THEN " " ELSE t[i]]

\* services.py:584 cleaned_input.split(' '): the pieces between the blanks, the
\* empty ones included
RECURSIVE SplitOnBlank(_)
SplitOnBlank(t) ==
    LET k == Find(t, " ", 1)
    IN  IF k = 0 THEN <<t>>
        ELSE <<SubSeq(t, 1, k - 1)>> \o SplitOnBlank(SubSeq(t, k + 1, Len(t)))

\* str.isdigit(): not empty and digits only
IsDigit(part) == part # <<>> /\ \A i \in DOMAIN part : part[i] \in DigitChars

DigitValue(ch) == CASE ch = "0" -> 0 [] ch = "1" -> 1 [] ch = "2" -> 2

\* int(part)
RECURSIVE IntOf(_)
IntOf(part) ==
    IF part = <<>> THEN 0
    ELSE 10 * IntOf(SubSeq(part, 1, Len(part) - 1)) + DigitValue(part[Len(part)])

\* mutant: the number of books itself passes the range check
InRange_Inclusive(idx, total_books) == 0 <= idx /\ idx <= total_books

\* services.py:596
InRange(idx, total_books) == 0 <= idx /\ idx < total_books

\* services.py:589-602: the loop over the parts, from part k on
RECURSIVE CollectIndices(_, _, _, _)
CollectIndices(parts, k, total_books, indices) ==
    IF k > Len(parts) THEN indices
    ELSE LET part == parts[k]
             idx == IntOf(part) - 1
             found == \E j \in DOMAIN indices : indices[j] = idx
         IN  CollectIndices(parts, k + 1, total_books,
                 IF IsDigit(part) /\ InRange(idx, total_books) /\ ~found
                 THEN Append(indices, idx) ELSE indices)

\* services.py:603 sorted(indices)
Sorted(indices) == SortSeq(indices, LAMBDA a, b : a < b)

\* services.py:575-603
parse_book_indices(user_input, total_books) ==
    IF user_input.type # "str" THEN <<>>
    ELSE LET cleaned_input == Strip(CollapseWs(CommaSub(user_input.chars), 1))
             parts == SplitOnBlank(cleaned_input)
         IN  Sorted(CollectIndices(parts, 1, total_books, <<>>))

ParseCall(user_input, total_books) ==
    [fn |-> "parse_book_indices", user_input |-> user_input, total_books |-> total_books]

ParseCalls == { ParseCall(u, n) : u \in UserInputs, n \in 0..MaxBooks }

\* services.py:575-603 on the arguments of the call
CallParseBookIndices ==
    /\ call.fn = "parse_book_indices" /\ ~returned.done
    /\ returned' = Returned(parse_book_indices(call.user_input, call.total_books))
    /\ UNCHANGED <<call, pvars>>

----------------------------------------------------------------------------
(* ChatController.process_chat_message, controllers.py:17-169, with
   OrderRepository.fetch_order_by_id, repositories.py:66-200.  A message is a
   text of lexemes; what the handler returns is the kind of its answer and the
   calls it made on the repository and on the model, in their order. *)

\* the user id of the request: an int, or None
UserId(n) == [type |-> "int", value |-> n]
NoUserId == [type |-> "NoneType", value |-> 0]
UserIds == {NoUserId, UserId(0), UserId(7), UserId(8)}

\* the orders of the data source: the order number, the customer and the number
\* of books of the order
Order(order_number, customer, books) ==
    [order_number |-> order_number, customer |-> customer, books |-> books]
NoOrder == Order(None, 0, 0)
Orders == {Order("BW123", 7, 2), Order("BW999", 8, 1)}

OrderIdLexemes == {"BW123", "bw123", "BW999"}

\* .upper()
Upper(x) == IF x = "bw123" THEN "BW123" ELSE x

LatestMessages ==
    { <<>>, <<" ">>, <<"hello">>, <<"BW123">>, <<"track", " ", "bw123">>,
      <<"x", "BW123">>, <<"details", " ", "BW123">>,
      <<"BW123", " ", "2", ",", " ", "1">>, <<"BW123", " ", "0">>, <<"2">>,
      <<"BW999">>, <<"bye">>, <<"hai", " ", "BW999">>, <<"kya", " ", "hai">> }

Entry(sender, message) == [sender |-> sender, message |-> message]
ChatHistories ==
    { <<>>,
      <<Entry("user", <<"BW123">>), Entry("bot", <<"BW999">>)>>,
      <<Entry("user", <<"BW123">>), Entry("user", <<"BW999", " ", "hello">>)>> }

\* position i of t holds an order id with a word boundary on each side
OrderIdAt(t, i) ==
    /\ i \in DOMAIN t /\ t[i] \in OrderIdLexemes
    /\ i = 1 \/ t[i - 1] \in Separators
    /\ i = Len(t) \/ t[i + 1] \in Separators

\* services.py:171-178: the first order id of the text in upper case, or None
extract_order_id(t) ==
    IF \E i \in DOMAIN t : OrderIdAt(t, i)
    THEN Upper(t[CHOOSE i \in DOMAIN t :
                    OrderIdAt(t, i) /\ \A j \in 1..(i - 1) : ~OrderIdAt(t, j)])
    ELSE None

\* controllers.py:67-76: the order id of the latest user message of the history
\* that holds one, looked at from entry k back
RECURSIVE HistoryOrderId(_, _)
HistoryOrderId(chat_history, k) ==
    IF k < 1 THEN None
    ELSE IF chat_history[k].sender = "user"
            /\ extract_order_id(chat_history[k].message) # None
         THEN extract_order_id(chat_history[k].message)
         ELSE HistoryOrderId(chat_history, k - 1)

\* services.py:181-193
detect_language(t) == \E i \in DOMAIN t : t[i] \in {"kya", "hai"}

\* controllers.py:104-105
AsksForDetails(t) == \E i \in DOMAIN t : t[i] = "details"

\* controllers.py:129
AsksToExit(t) == \E i \in DOMAIN t : t[i] = "bye"

\* controllers.py:112 re.search: a run of digits with a word boundary on each side
HasNumbers(t) ==
    \E a, b \in DOMAIN t :
        /\ a <= b /\ \A i \in a..b : t[i] \in DigitChars
        /\ a = 1 \/ t[a - 1] \in Separators
        /\ b = Len(t) \/ t[b + 1] \in Separators

\* repositories.py:66-200: the order with that number of that customer, None
\* without a cursor or when there is no such row
fetch_order_by_id(order_id, user_id, cursor_ok) ==
    LET rows == { o \in Orders : o.order_number = order_id /\ o.customer = user_id.value }
    IN  IF cursor_ok /\ rows # {} THEN CHOOSE o \in rows : TRUE ELSE NoOrder

\* the calls the handler makes on its collaborators
Fetch(order_id, user_id) ==
    [fn |-> "fetch_order_by_id", order_id |-> order_id, user_id |-> user_id]
ModelCall(fn) == [fn |-> fn, order_id |-> None, user_id |-> NoUserId]

\* services.py:196-225: the translation is a model call
Translate(is_hindi) == IF is_hindi THEN <<ModelCall("get_response_in_language")>> ELSE <<>>

ChatAnswer(response, order, effects) ==
    [response |-> response, order |-> order, effects |-> effects]

\* bool(user_id)
Truthy(user_id) == user_id.type = "int" /\ user_id.value # 0

\* mutant: only a missing user id counts as not logged in
LoggedIn_ZeroPasses(user_id) == user_id.type # "NoneType"

\* controllers.py:34: not (not user_id or user_id == 0)
LoggedIn(user_id) == ~(~Truthy(user_id) \/ user_id = UserId(0))

\* controllers.py:98-169: the answer once an order is there or none was asked for
AnswerWith(latest_message, is_hindi, order, effects) ==
    IF order # NoOrder /\ AsksForDetails(latest_message)
    THEN ChatAnswer("order_details", order, effects)
    ELSE IF order # NoOrder /\ order.books > 0 /\ HasNumbers(latest_message)
    THEN IF parse_book_indices(Str(latest_message), order.books) # <<>>
         THEN ChatAnswer("specific_books", order, effects)
         ELSE ChatAnswer("order_summary", order,
                         Append(effects, ModelCall("generate_order_summary")))
    ELSE IF AsksToExit(latest_message)
    THEN ChatAnswer("exit", order,
                    Append(effects, ModelCall("query_deepseek")) \o Translate(is_hindi))
    ELSE IF order # NoOrder
    THEN ChatAnswer("order_summary", order,
                    Append(effects, ModelCall("generate_order_summary")))
    ELSE ChatAnswer("general", order,
                    Append(effects, ModelCall("generate_general_response")))

\* controllers.py:17-169
process_chat_message(latest_message, chat_history, user_id, cursor_ok) ==
    IF ~LoggedIn(user_id) THEN ChatAnswer("LOGIN_REQUIRED", NoOrder, <<>>)
    ELSE IF Strip(latest_message) = <<>> THEN ChatAnswer("empty_message", NoOrder, <<>>)
    ELSE LET is_hindi == detect_language(latest_message)
             extracted_id ==
                 IF extract_order_id(latest_message) # None
                 THEN extract_order_id(latest_message)
                 ELSE HistoryOrderId(chat_history, Len(chat_history))
         IN  IF extracted_id = None
             THEN AnswerWith(latest_message, is_hindi, NoOrder, <<>>)
             ELSE LET order == fetch_order_by_id(extracted_id, user_id, cursor_ok)
                      effects == <<Fetch(extracted_id, user_id)>>
                  IN  IF order = NoOrder
                      THEN ChatAnswer("order_not_found", NoOrder,
                                      effects \o Translate(is_hindi))
                      ELSE AnswerWith(latest_message, is_hindi, order, effects)

ChatCall(latest_message, chat_history, user_id, cursor_ok) ==
    [fn |-> "process_chat_message", latest_message |-> latest_message,
     chat_history |-> chat_history, user_id |-> user_id, cursor_ok |-> cursor_ok]

ChatCalls ==
    { ChatCall(m, h, u, c) :
        m \in LatestMessages, h \in ChatHistories, u \in UserIds, c \in BOOLEAN }

\* controllers.py:17-169 on the arguments of the call
CallProcessChatMessage ==
    /\ call.fn = "process_chat_message" /\ ~returned.done
    /\ returned' = Returned(process_chat_message(call.latest_message, call.chat_history,
                                                 call.user_id, call.cursor_ok))
    /\ UNCHANGED <<call, pvars>>

\* the calls of the functions, each on its own
FunctionCalls == Calls \cup ParseCalls \cup ChatCalls

InitFunctions == InitPipeline /\ call \in FunctionCalls /\ returned = NoResult

\* the variables of the request threads but the query cache
rvars == <<filter_cache, pc, user_query, synth, clean_query, db_results, filt, ret,
           stages, served>>

\* deepseek1.py:56-198 on the arguments of the call, with the cache empty: the
\* lookup misses, the reply is worked on and a result that is returned is cached
CallGetSql ==
    /\ call.fn = "get_sql_from_deepseek" /\ ~returned.done
    /\ call.user_query \notin DOMAIN sql_cache
    /\ LET r == SqlFromReply(call.user_query, call.reply)
       IN  /\ returned' = Returned(r)
           /\ sql_cache' = IF ~r.raised /\ Cardinality(DOMAIN sql_cache) < MAX_CACHE_SIZE
                           THEN DictSet(sql_cache, call.user_query,
                                        <<r.sql_text, r.loading_line>>)
                           ELSE sql_cache
    /\ UNCHANGED <<call, rvars>>

\* deepseek1.py:56-62: the same request once more, now found in the cache
CallGetSqlAgain ==
    /\ call.fn = "get_sql_from_deepseek" /\ returned.done
    /\ DOMAIN returned = {"done", "value"}
    /\ call.user_query \in DOMAIN sql_cache
    /\ returned' = ReturnedAgain(returned.value, SqlCacheHit(sql_cache, call.user_query))
    /\ UNCHANGED <<call, pvars>>

\* sql_utils.py:13-49 on the argument of the call
CallCleanSql ==
    /\ call.fn = "clean_sql" /\ ~returned.done
    /\ returned' = Returned(clean_sql(call.sql_text))
    /\ UNCHANGED <<call, pvars>>

\* book_service.py:33-46: the query text the call returned is normalized for the
\* data source
CallCleanOnReturned ==
    /\ call.fn = "get_sql_from_deepseek" /\ returned.done
    /\ DOMAIN returned = {"done", "value"}
    /\ ~returned.value.raised
    /\ returned' = ReturnedAndCleaned(returned.value,
                                      QueryToExecute(returned.value.sql_text))
    /\ UNCHANGED <<call, pvars>>

NextFunctions == CallGetSql \/ CallGetSqlAgain \/ CallCleanOnReturned \/ CallCleanSql \/ CallParseBookIndices
                   \/ CallProcessChatMessage
SpecFunctions == InitFunctions /\ [][NextFunctions]_vars

----------------------------------------------------------------------------
(* Claims *)

Done(p) == pc[p] = "done"
Running(p) == pc[p] \notin {"idle", "done"}

\* the stage names of p's invocation, in order
StageNames(p) == [i \in DOMAIN stages[p] |-> stages[p][i][1]]

\* how the collaborator answered p at the stage called name ("" when not reached)
Answer(p, name) ==
    IF \E i \in DOMAIN stages[p] : stages[p][i][1] = name
    THEN stages[p][CHOOSE i \in DOMAIN stages[p] : stages[p][i][1] = name][2]
    ELSE ""

Messages == {"coffee_break", "understanding", "snag", "no_matches", "none_right", "books"}

\* C1: recommend_books always comes to a return and what it returns is one of its
\* strings: whatever the model service and the data source do at any stage, no
\* exception leaves it, and an invocation under way always has a next step.
C1_AlwaysReturnsAString ==
    \A p \in Procs :
        /\ ret[p].kind # "raise"
        /\ Done(p) => ret[p].kind \in Messages
        /\ Running(p) => ENABLED Step(p)

\* reached: the filter raised on a reply without choices, the preamble call timed
\* out, and the caller still got the list of books
C1_Witness ==
    \E p \in Procs :
        /\ Done(p) /\ filt[p].raised /\ filt[p].exc = "KeyError"
        /\ Answer(p, "preamble_call") = "Timeout"
        /\ ret[p].kind = "books"

\* C2 as stated: a non-empty result set and an empty index list from the filter
\* give the first 15 rows as the selection, never the nothing-selected answer.
C2_EmptySelectionFallsBack ==
    \A p \in Procs :
        (Done(p) /\ db_results[p] # <<>> /\ filt[p].via \in {"parsed", "hit", "fail_open"}
            /\ filt[p].indices = <<>>)
        => /\ ret[p].kind = "books"
           /\ ret[p].books = Take(db_results[p], FALLBACK_ROWS)

\* C2 as amended: an empty index list from the filter gives the none-seemed-right
\* answer, with the status message and without a preamble call; the first 15 rows
\* are the selection exactly when the filter call raised.
C2_EmptySelectionIsReported ==
    \A p \in Procs :
        /\ (Done(p) /\ db_results[p] # <<>>
               /\ filt[p].via \in {"parsed", "hit", "fail_open"} /\ filt[p].indices = <<>>)
           => /\ ret[p] = NoneRightMessage(LoadingLine(synth[p]))
              /\ Answer(p, "preamble_call") = ""
        /\ (Done(p) /\ filt[p].raised)
           => /\ ret[p].kind = "books"
              /\ ret[p].books = Take(db_results[p], FALLBACK_ROWS)

\* reached: more rows than the filter looks at, every number of the parsed array
\* out of range, and the request is over
C2_Witness ==
    \E p \in Procs :
        /\ Done(p) /\ Len(db_results[p]) > FILTER_LIMIT
        /\ filt[p].via = "parsed" /\ filt[p].indices = <<>>

\* C3: when the synthesis call times out or fails in transport, the synthesizer
\* raises and produces no query, and recommend_books returns the understanding
\* message having done nothing else: no normalisation, no query on the data source,
\* no filter call, no preamble call.
C3_SynthesisFailureStopsThePipeline ==
    \A p \in Procs :
        Answer(p, "synthesis_call") \in RequestExceptions
        => /\ synth[p].raised /\ synth[p].sql_text = <<>>
           /\ Done(p) /\ ret[p] = UnderstandingMessage
           /\ StageNames(p) = <<"synthesis_call">>
           /\ db_results[p] = <<>> /\ filt[p] = NoFilter

C3_Witness ==
    \E p \in Procs :
        /\ Done(p) /\ Answer(p, "synthesis_call") = "Timeout"
        /\ sql_cache # <<>>
        /\ ret[p] = UnderstandingMessage

\* the number of candidates the filter looks at
Truncated(p) ==
    IF Len(db_results[p]) > FILTER_LIMIT THEN FILTER_LIMIT ELSE Len(db_results[p])

FilterReturned(p) == filt[p].via \in {"hit", "fail_open", "parsed"}

\* C4 as stated: filter_books_with_deepseek never raises, whatever the model call
\* does, and every reply it cannot parse gives the fail-open list 0..n-1.
C4_FilterNeverRaises ==
    \A p \in Procs :
        /\ ~filt[p].raised
        /\ Answer(p, "filter_call") # "" => FilterReturned(p)
        /\ filt[p].via = "fail_open" => filt[p].indices = PyRange(Truncated(p))

\* C5: every index the filter returns, on a hit, on fail-open and from a parsed
\* reply, is an offset into the truncated candidate list, and every list in
\* filter_cache holds offsets into the titles of its key.
C5_IndicesWithinTruncatedList ==
    /\ \A p \in Procs :
          FilterReturned(p) =>
             \A k \in DOMAIN filt[p].indices :
                 0 <= filt[p].indices[k] /\ filt[p].indices[k] <= Truncated(p) - 1
    /\ \A key \in DOMAIN filter_cache :
          \A k \in DOMAIN filter_cache[key] :
              0 <= filter_cache[key][k] /\ filter_cache[key][k] <= Len(key[2]) - 1

\* reached: a hit on a truncated list of more than 20 rows returns a cached,
\* non-empty index list
C5_Witness ==
    \E p \in Procs :
        /\ filt[p].via = "hit" /\ filt[p].indices # <<>>
        /\ Len(db_results[p]) > FILTER_LIMIT

\* C6: when the model call of the filter times out or fails in transport, the list
\* returned has as many entries as the truncated candidate list and holds each of
\* its offsets 0..n-1 once, in order.
C6_FailOpenCoversEveryCandidate ==
    \A p \in Procs :
        Answer(p, "filter_call") \in RequestExceptions
        => /\ ~filt[p].raised
           /\ Len(filt[p].indices) = Truncated(p)
           /\ \A j \in 0..(Truncated(p) - 1) :
                 Cardinality({k \in DOMAIN filt[p].indices : filt[p].indices[k] = j}) = 1
           /\ filt[p].indices = PyRange(Truncated(p))

C6_Witness ==
    \E p \in Procs :
        /\ Answer(p, "filter_call") = "Timeout"
        /\ Len(db_results[p]) > FILTER_LIMIT
        /\ Len(filt[p].indices) = FILTER_LIMIT

\* p leaves the position at
Leaves(p, at) == pc[p] = at /\ pc'[p] # at

\* C7, one step: a cache changes only in the store step of some call; the call that
\* stores in sql_cache had its model call answered and did not raise, and the call
\* that stores in filter_cache parsed an array out of the reply; a step in which a
\* call fails (the synthesizer raises, the filter raises or fails open) leaves both
\* caches as they were.
C7_Step ==
    /\ sql_cache' # sql_cache => \E p \in Procs : Leaves(p, "sql_store")
    /\ filter_cache' # filter_cache => \E p \in Procs : Leaves(p, "filter_store")
    /\ \A p \in Procs :
          /\ Leaves(p, "sql_store")
             => /\ Answer(p, "synthesis_call") = "OK" /\ ~synth[p].raised
                /\ sql_cache' = DictSet(sql_cache, user_query[p],
                                        <<synth[p].sql_text, synth[p].loading_line>>)
          /\ Leaves(p, "filter_store")
             => /\ Answer(p, "filter_call") = "OK" /\ filt[p].via = "parsed"
                /\ filter_cache'[CacheKey(user_query[p], BooksToProcess(db_results[p]))]
                      = filt[p].indices
          /\ (Leaves(p, "sql_post") /\ synth'[p].raised)
             => UNCHANGED <<sql_cache, filter_cache>>
          /\ (Leaves(p, "filter_post") /\ filt'[p].via \in {"fail_open", "raised"})
             => /\ UNCHANGED <<sql_cache, filter_cache>>
                /\ pc'[p] \notin {"filter_capacity", "filter_store"}

\* C7: failed calls write nothing and every cache entry was written by a call that
\* succeeded.
C7_FailuresAreNeverCached == [][C7_Step]_vars

\* reached: a filter call failed open while filter_cache was below capacity, the
\* request is over and the cache is still empty
C7_Witness ==
    \E p \in Procs :
        /\ Done(p) /\ filt[p].via = "fail_open"
        /\ Answer(p, "filter_call") = "OK"
        /\ filter_cache = <<>> /\ sql_cache # <<>>

\* C8 as stated: in every state the threads can reach, neither cache holds more
\* entries than its maximum.
C8_CachesWithinCapacity ==
    /\ Cardinality(DOMAIN sql_cache) <= MAX_CACHE_SIZE
    /\ Cardinality(DOMAIN filter_cache) <= MAX_FILTER_CACHE_SIZE

\* p is past the miss check of a cache and before its write
InSqlSection(p) == pc[p] \in {"sql_post", "sql_capacity", "sql_store"}
InFilterSection(p) == pc[p] \in {"filter_post", "filter_capacity", "filter_store"}

\* C9 as stated: no two requests are inside the check-then-write sequence of the
\* same cache at once.
C9_CheckThenWriteIsExclusive ==
    \A p, o \in Procs :
        p # o => /\ ~(InSqlSection(p) /\ InSqlSection(o))
                 /\ ~(InFilterSection(p) /\ InFilterSection(o))

\* C10, one step: when a call of get_sql_from_deepseek looks up a request that an
\* earlier successful call stored, it returns at once the query text and the status
\* message that call returned, with cost 0 and without a model call.
C10_Step ==
    \A p \in Procs :
        (Leaves(p, "sql_lookup") /\ user_query[p] \in DOMAIN served)
        => /\ ~synth'[p].raised /\ synth'[p].via = "hit"
           /\ synth'[p].sql_text = served[user_query[p]][1]
           /\ synth'[p].loading_line = served[user_query[p]][2]
           /\ synth'[p].token_used = 0
           /\ pc'[p] = "execute" /\ stages'[p] = <<>>

\* C10: a request synthesized once below capacity is answered from the cache ever
\* after, whatever was synthesized in between.
C10_SecondCallIsACacheHit == [][C10_Step]_vars

\* reached: a hit for a request stored earlier, with another request in the cache
C10_Witness ==
    \E p \in Procs :
        /\ synth[p].via = "hit" /\ Running(p)
        /\ user_query[p] \in DOMAIN served
        /\ Cardinality(DOMAIN sql_cache) = MAX_CACHE_SIZE

\* the call in hand is get_sql_from_deepseek, or clean_sql, and it has returned
GetSqlOver == call.fn = "get_sql_from_deepseek" /\ returned.done
CleanOver == call.fn = "clean_sql" /\ returned.done

\* the model call succeeded in transport and its reply carries a generated text
HasGeneratedText == call.reply.post = "OK" /\ call.reply.body = "json"

\* C11 as stated: once the model call succeeded, get_sql_from_deepseek returns
\* normally for every request, the empty and the blank one included, and the query
\* text it returns passes the shape check: the generated statement when that is
\* valid, the fallback query otherwise.
C11_FallbackAlwaysGivesAValidQuery ==
    (GetSqlOver /\ HasGeneratedText)
    => /\ ~returned.value.raised
       /\ ValidShape(returned.value.sql_text)
       /\ ValidShape(SqlTextOf(call.reply.content))
             => returned.value.sql_text = SqlTextOf(call.reply.content)

\* the generated text failed the shape check and the fallback query was returned
FallbackCase ==
    /\ GetSqlOver /\ HasGeneratedText
    /\ ~ValidShape(SqlTextOf(call.reply.content))
    /\ ~returned.value.raised

\* t holds column LIKE '%tok%' from position i on
MatchAt(t, i, column, tok) ==
    /\ i + 8 <= Len(t)
    /\ SubSeq(t, i, i + 8) = <<column, " ", "LIKE", " ", "'", "%", tok, "%", "'">>

\* t is a TOP 15 query on the primary table with a condition
Top15OnPrimaryTable(t) ==
    LET w == Find(t, "WHERE", 1)
    IN  /\ w > 4 /\ w + 2 <= Len(t)
        /\ SubSeq(t, 1, 5) = <<"SELECT", " ", "TOP", " ", "15">>
        /\ SubSeq(t, w - 4, w - 1) = <<"FROM", " ", "Table_ProductSearchNewSearch", " ">>
        /\ Count(t, "FROM") = 1 /\ Count(t, "WHERE") = 1

\* the condition of t is the title match alone
TitleMatchOnly(t, tok) ==
    LET c == Find(t, "WHERE", 1) + 2
    IN  MatchAt(t, c, "Product_Title", tok) /\ Len(t) = c + 8

\* the condition of t is the OR of the title, author and category matches
ThreeMatches(t, tok) ==
    LET c == Find(t, "WHERE", 1) + 2
    IN  /\ MatchAt(t, c, "Product_Title", tok)
        /\ MatchAt(t, c + 12, "AuthorName1", tok)
        /\ MatchAt(t, c + 24, "Category_Name", tok)
        /\ Len(t) = c + 32
        /\ SubSeq(t, c + 9, c + 11) = <<" ", "OR", " ">>
        /\ SubSeq(t, c + 21, c + 23) = <<" ", "OR", " ">>

\* C12 as stated: the fallback query is a TOP 15 search on the primary table whose
\* condition is the OR of the title, author and category matches of the first token
\* of the request, for every request, one of a single token included.
C12_FallbackMatchesThreeFields ==
    FallbackCase
    => /\ Top15OnPrimaryTable(returned.value.sql_text)
       /\ ThreeMatches(returned.value.sql_text, Split(call.user_query)[1])

\* C12 as amended: the fallback query is a TOP 15 search on the primary table; its
\* condition is the OR of the title, author and category matches of the first token
\* when the request has more than one token, and the title match alone when the
\* request is a single token.
C12_FallbackMatchesByTokenCount ==
    FallbackCase
    => /\ Top15OnPrimaryTable(returned.value.sql_text)
       /\ IF Len(Split(call.user_query)) > 1
          THEN ThreeMatches(returned.value.sql_text, Split(call.user_query)[1])
          ELSE TitleMatchOnly(returned.value.sql_text, Split(call.user_query)[1])

\* reached: a request of one token, a generated text without TOP, and the fallback
\* query with the title match alone
C12_Witness ==
    /\ FallbackCase /\ call.user_query = <<"dune">>
    /\ call.reply.content = SqlNoTop
    /\ TitleMatchOnly(returned.value.sql_text, "dune")

NeutralPreamble == "Here are some books I found for you:"

\* C13 as stated: when the preamble call fails, the answer opens with the neutral
\* preamble and still lists the selected books; the only openings an answer has
\* are the text the model generated and the neutral preamble.
C13_FailedPreambleIsReplaced ==
    \A p \in Procs :
        (Done(p) /\ Answer(p, "preamble_call") # "")
        => /\ ret[p].kind = "books" /\ ret[p].books # <<>>
           /\ Answer(p, "preamble_call") # "OK" => ret[p].opening = NeutralPreamble
           /\ ret[p].opening \in {NeutralPreamble, "Great choice!"}

\* C14 as stated: every external call is made with a timeout, so a request under
\* way always comes to its return, even when a collaborator never answers.
C14_EveryRequestReturns ==
    \A p \in Procs : Running(p) ~> Done(p)

ExternalStages == {"synthesis_call", "data_source", "filter_call", "preamble_call"}

\* how many times p's invocation called the collaborator of a stage
Attempts(p, name) == Cardinality({i \in DOMAIN stages[p] : stages[p][i][1] = name})

\* C15: within one invocation the model service is called at most once for the
\* synthesis, at most once for the filter and at most once for the preamble, and
\* the data source executes at most one query, whatever the outcomes.
C15_NoStageIsReattempted ==
    \A p \in Procs : \A name \in ExternalStages : Attempts(p, name) <= 1

\* reached: the filter call and the preamble call both timed out and the request
\* is over with each of the four calls made once
C15_Witness ==
    \E p \in Procs :
        /\ Done(p)
        /\ Answer(p, "filter_call") = "Timeout" /\ Answer(p, "preamble_call") = "Timeout"
        /\ \A name \in ExternalStages : Attempts(p, name) = 1

\* C16: an execution error of the data source gives the snag answer and an empty
\* result set the no-matches answer, both prefixed by the status message the
\* synthesizer returned; the two differ from each other and from the answer to a
\* failed synthesis, and neither the filter nor the preamble call is made.
C16_DataSourceOutcomes ==
    /\ \A p \in Procs :
          /\ Answer(p, "data_source") \notin {"", "OK"}
             => /\ Done(p) /\ ret[p].kind = "snag"
                /\ ret[p].loading_line = LoadingLine(synth[p])
                /\ Attempts(p, "filter_call") = 0 /\ Attempts(p, "preamble_call") = 0
          /\ (Answer(p, "data_source") = "OK" /\ db_results[p] = <<>>)
             => /\ Done(p) /\ ret[p].kind = "no_matches"
                /\ ret[p].loading_line = LoadingLine(synth[p])
                /\ Attempts(p, "filter_call") = 0 /\ Attempts(p, "preamble_call") = 0
    /\ \A l \in {"", "Searching"} :
          /\ SnagMessage(l) # NoMatchesMessage(l)
          /\ SnagMessage(l) # UnderstandingMessage
          /\ NoMatchesMessage(l) # UnderstandingMessage

\* reached: the synthesizer returned a status message, the data source raised, and
\* the snag answer carries the message
C16_Witness ==
    \E p \in Procs :
        /\ Done(p) /\ Answer(p, "data_source") = "pyodbc.Error"
        /\ synth[p].loading_line = "Searching"
        /\ ret[p] = SnagMessage("Searching")

\* C17: clean_sql returns a text that is not empty for every input: the empty
\* string, blanks only, code-fence markers only, quotes and terminators only.
C17_CleanSqlNeverReturnsEmpty ==
    CleanOver => /\ returned.value # <<>>
                 /\ \A i \in DOMAIN returned.value : returned.value[i] # ""

\* reached: a text of code-fence markers and blanks only, cleaned to a terminator
C17_Witness ==
    /\ CleanOver /\ call.sql_text # <<>>
    /\ \A i \in DOMAIN call.sql_text : call.sql_text[i] \in Fences \cup Ws
    /\ \E i \in DOMAIN call.sql_text : call.sql_text[i] \in Fences
    /\ returned.value = <<";">>

\* what the claim says a clause becomes: one condition per segment joined by AND
\* in parentheses, or the clause itself when it has one segment
Rewritten(c) ==
    IF Len(c.segments) = 1 THEN ClauseText(c)
    ELSE <<"(">> \o JoinAnd([k \in DOMAIN c.segments |->
                                Condition(c.column, c.segments[k])]) \o <<")">>

C19_OddQuotesAreBalanced ==
    (CleanOver /\ Count(BeforeBalance(call.sql_text), "'") % 2 = 1)
    => /\ Count(returned.value, "'") % 2 = 0
       /\ returned.value = RStrip(BeforeBalance(call.sql_text), {";"}) \o <<"'", ";">>

\* the number of terminators t ends with
TrailingTerminators(t) == Len(t) - Len(RStrip(t, {";"}))

\* C20 as stated: the text clean_sql returns ends with exactly one terminator, for
\* every input.
C20_EndsWithExactlyOneTerminator ==
    CleanOver => TrailingTerminators(returned.value) = 1

\* C20 as amended: the text clean_sql returns ends with a terminator, one being
\* appended when absent; it ends with exactly one when a statement was extracted
\* from the input or the quote-balance step repaired the text; otherwise the
\* terminators the input ends with are kept as they are.
C20_EndsWithATerminator ==
    CleanOver
    => LET kept == TrailingTerminators(Strip(FenceSub(call.sql_text)))
       IN  /\ TrailingTerminators(returned.value) >= 1
           /\ (StatementSearch(call.sql_text) # 0
                  \/ Count(BeforeBalance(call.sql_text), "'") % 2 = 1)
              => TrailingTerminators(returned.value) = 1
           /\ (StatementSearch(call.sql_text) = 0
                  /\ Count(BeforeBalance(call.sql_text), "'") % 2 = 0)
              => TrailingTerminators(returned.value) = (IF kept = 0 THEN 1 ELSE kept)

\* reached: an input without a statement that ends with two terminators, returned
\* with both
C20_Witness ==
    /\ CleanOver /\ StatementSearch(call.sql_text) = 0
    /\ TrailingTerminators(call.sql_text) = 2
    /\ TrailingTerminators(returned.value) = 2

\* the call worked on the text of candidate c
CandidateCall(c) ==
    /\ GetSqlOver /\ HasGeneratedText
    /\ call.reply.content = CandidateText(c)

\* the candidate passed the shape check: its statement is what the call returned
Accepted(c) == ~returned.value.raised /\ returned.value.sql_text = CandidateStatement(c)

\* the candidate failed the shape check: the call went on to build the fallback
\* query of the request, and returned it unless building it raised
Rejected(c) ==
    \/ returned.value.raised /\ returned.value.exc = "IndexError"
    \/ /\ ~returned.value.raised
       /\ returned.value.sql_text # CandidateStatement(c)
       /\ Top15OnPrimaryTable(returned.value.sql_text)

\* C21: the shape check rejects every candidate without a row limit (TOP and a
\* number directly after SELECT) and accepts every candidate that has SELECT, TOP
\* and a number, and a FROM clause naming one of the two known tables, whatever
\* blanks and line breaks surround the candidate and separate its keywords.
C21_ShapeCheckAsksForRowLimit ==
    \A c \in Candidates :
        CandidateCall(c)
        => /\ c.limit # "top" => Rejected(c)
           /\ (c.limit = "top" /\ c.table \in KnownTables) => Accepted(c)

\* reached: a candidate with line breaks around it and between its keywords, with
\* the row limit and a known table, was accepted
C21_Witness ==
    \E c \in Candidates :
        /\ CandidateCall(c) /\ c.limit = "top" /\ c.table \in KnownTables
        /\ c.lead # <<>> /\ c.sep = <<"\n", " ">> /\ c.tail = <<>>
        /\ Accepted(c)

\* C22 as stated: the shape check accepts a candidate only if the whole text has
\* the shape and draws from exactly one of the two known tables: a candidate whose
\* table name merely starts with the name of a known table, or whose statement is
\* followed by a further statement, is rejected and replaced by the fallback.
C22_NoPartialCredit ==
    \A c \in Candidates :
        CandidateCall(c)
        => /\ Accepted(c) => (Fold(c.table) \in KnownTables /\ c.tail # FurtherStatement)
           /\ (c.table \in LongerTableNames \/ c.tail = FurtherStatement) => Rejected(c)

\* the generated text of the call carried no marker of a status message
NoMarker == MarkerSearch(Strip(call.reply.content)) = 0

\* the call was made a second time and served from the cache
ServedAgain == GetSqlOver /\ "first" \in DOMAIN returned

\* C23 as stated: when the generated text carries no marker of a status message,
\* the status message of the triple is the empty string, on the miss and on the
\* hit that follows it; the cost is the reported token count on the miss and 0 on
\* the hit.
C23_NoMarkerGivesEmptyStatus ==
    (GetSqlOver /\ HasGeneratedText /\ NoMarker /\ ~returned.value.raised)
    => /\ returned.value.loading_line = ""
       /\ ServedAgain => returned.first.loading_line = ""
       /\ returned.value.token_used =
             IF ServedAgain THEN 0 ELSE call.reply.total_tokens

\* C23 as amended: without a marker the status message of the triple is None, on
\* the miss and on the hit that follows it; with a marker it is the text after the
\* marker both times; the cost is the reported token count on the miss and 0 on
\* the hit.
C23_NoMarkerGivesNoStatus ==
    (GetSqlOver /\ HasGeneratedText /\ ~returned.value.raised)
    => /\ NoMarker => returned.value.loading_line = None
       /\ ~NoMarker => returned.value.loading_line # None
       /\ ServedAgain
             => /\ returned.value.loading_line = returned.first.loading_line
                /\ returned.value.sql_text = returned.first.sql_text
                /\ returned.value.via = "hit" /\ returned.value.token_used = 0
                /\ returned.first.token_used = call.reply.total_tokens
       /\ ~ServedAgain
             => /\ returned.value.via = "miss"
                /\ returned.value.token_used = call.reply.total_tokens

\* reached: a generated text without a marker was answered on the miss and then
\* served from the cache, without a status message both times
C23_Witness ==
    /\ ServedAgain /\ HasGeneratedText /\ NoMarker
    /\ returned.first.loading_line = None /\ returned.value.loading_line = None
    /\ returned.first.token_used = 7 /\ returned.value.token_used = 0

ParseOver == call.fn = "parse_book_indices" /\ returned.done

\* positions a..b of t hold a token: a longest run of characters that are no
\* separators
IsToken(t, a, b) ==
    /\ 1 <= a /\ a <= b /\ b <= Len(t)
    /\ \A i \in a..b : t[i] \notin Separators
    /\ a = 1 \/ t[a - 1] \in Separators
    /\ b = Len(t) \/ t[b + 1] \in Separators

\* the number a token of digits stands for, read from its first digit on
RECURSIVE NumberFrom(_, _, _)
NumberFrom(t, i, acc) ==
    IF i > Len(t) THEN acc ELSE NumberFrom(t, i + 1, 10 * acc + DigitValue(t[i]))

\* the numbers of the all-digit tokens of t
NumbersIn(t) ==
    { NumberFrom(SubSeq(t, a, b), 1, 0) :
        <<a, b>> \in { ab \in (DOMAIN t) \X (DOMAIN t) :
                         /\ IsToken(t, ab[1], ab[2])
                         /\ \A i \in ab[1]..ab[2] : t[i] \in DigitChars } }

\* C25: for every input and every total_books >= 0, parse_book_indices returns a
\* strictly increasing list of distinct 0-based indices below total_books, which
\* holds n - 1 exactly for the all-digit tokens n of the input (separated by commas
\* or whitespace) with 1 <= n <= total_books; other tokens add nothing, and an
\* input that is no text gives the empty list.
C25_IndicesAreTheNumbersInRange ==
    ParseOver
    => LET r == returned.value
           n == call.total_books
       IN  /\ \A i \in DOMAIN r : r[i] \in 0..(n - 1)
           /\ \A i, j \in DOMAIN r : i < j => r[i] < r[j]
           /\ call.user_input.type # "str" => r = <<>>
           /\ call.user_input.type = "str"
                 => { r[i] : i \in DOMAIN r }
                      = { m - 1 : m \in { x \in NumbersIn(call.user_input.chars) :
                                            1 <= x /\ x <= n } }

\* reached: an input that names the second book before the first gave the two
\* indices in increasing order
C25_Witness ==
    /\ ParseOver /\ call.user_input.type = "str" /\ call.total_books = 2
    /\ returned.value = <<0, 1>>
    /\ call.user_input.chars[1] = "2"

ChatOver == call.fn = "process_chat_message" /\ returned.done

\* C24: process_chat_message called with user_id None or 0 returns the
\* LOGIN_REQUIRED answer before any other step, with no order fetched and no model
\* call made; and whenever an order is fetched, the fetch is made with the user id
\* of the caller, so that an order of another customer is never the context of
\* the answer.
C24_LoginComesFirst ==
    ChatOver
    => LET r == returned.value
       IN  /\ call.user_id \in {NoUserId, UserId(0)}
                 => r.response = "LOGIN_REQUIRED" /\ r.effects = <<>>
           /\ \A i \in DOMAIN r.effects :
                 r.effects[i].fn = "fetch_order_by_id"
                 => /\ r.effects[i].user_id = call.user_id
                    /\ call.user_id \notin {NoUserId, UserId(0)}
           /\ r.order # NoOrder => r.order.customer = call.user_id.value

\* reached: the message of a caller without user id named an order and was
\* answered with LOGIN_REQUIRED; the same message of the customer of the order
\* is what gets the order fetched
C24_Witness ==
    /\ ChatOver /\ call.user_id = UserId(0)
    /\ extract_order_id(call.latest_message) = "BW123"
    /\ returned.value.response = "LOGIN_REQUIRED"
    /\ process_chat_message(call.latest_message, call.chat_history, UserId(7),
                            call.cursor_ok).effects
          = <<Fetch("BW123", UserId(7))>>

\* the place of a stage in the order of the stages
Rank(name) ==
    CASE name = "synthesis_call" -> 1
      [] name = "normalize" -> 2
      [] name = "data_source" -> 3
      [] name = "filter_call" -> 4
      [] name = "preamble_call" -> 5

\* request p went through the stage of that name
Passed(p, name) == \E i \in DOMAIN stages[p] : stages[p][i][1] = name

\* C26: the stages of a request occur only in the order synthesis, normalization,
\* data-source execution, filter, preamble, assembly.  The data source is executed
\* only after the synthesis returned, and only with the normalized text of the
\* query it returned; the filter is called only after the data source returned a
\* result set that is not empty; the preamble call is made only when the final
\* selection is not empty, and the list of books is assembled only after it.
C26_StagesInOrder ==
    \A p \in Procs :
        /\ \A i, j \in DOMAIN stages[p] :
              i < j => Rank(stages[p][i][1]) < Rank(stages[p][j][1])
        /\ Passed(p, "data_source")
              => /\ synth[p].via \in {"miss", "hit"} /\ ~synth[p].raised
                 /\ Passed(p, "normalize")
                 /\ clean_query[p] = clean_sql(synth[p].sql_text)
        /\ ~Passed(p, "data_source") => clean_query[p] = <<>>
        /\ (filt[p].via # "none" \/ Passed(p, "filter_call"))
              => /\ \E i \in DOMAIN stages[p] : stages[p][i] = <<"data_source", "OK">>
                 /\ db_results[p] # <<>>
        /\ Passed(p, "preamble_call")
              => /\ FinalBooks(db_results[p], filt[p]) # <<>>
                 /\ filt[p].via # "none"
        /\ ret[p].kind = "books" => Passed(p, "preamble_call")

\* reached: a request went through all the stages, its query came from the model
\* and was changed by the normalization, and the list of books was assembled
C26_Witness ==
    \E p \in Procs :
        /\ pc[p] = "done" /\ ret[p].kind = "books"
        /\ [i \in DOMAIN stages[p] |-> stages[p][i][1]]
              = <<"synthesis_call", "normalize", "data_source", "filter_call",
                  "preamble_call">>
        /\ clean_query[p] # synth[p].sql_text

\* the request string of p and the titles of the first 20 of its rows, in order
RequestAndTitles(p) ==
    LET n == IF Len(db_results[p]) < 20 THEN Len(db_results[p]) ELSE 20
    IN  <<user_query[p], [i \in 1..n |-> db_results[p][i].Product_Title]>>

\* C27: when the filter parsed an index list for a request and its candidates and
\* the filter cache was below capacity, the list is stored under the request
\* string and the ordered titles of the first 20 candidates; what is stored stays
\* as it is; every later filter call with the same request string and the same
\* titles returns the stored list without a call of the model, and a call that
\* differs in the request string or in a title is a miss and goes to the model.
C27_FilterHitsOnRequestAndTitles ==
    [][\A p \in Procs :
          /\ (pc[p] = "filter_lookup" /\ pc'[p] # "filter_lookup")
                => IF RequestAndTitles(p) \in DOMAIN filter_cache
                   THEN /\ filt'[p].via = "hit"
                        /\ filt'[p].indices = filter_cache[RequestAndTitles(p)]
                        /\ stages'[p] = stages[p]
                        /\ pc'[p] = "respond"
                   ELSE pc'[p] = "filter_post"
          /\ (pc[p] = "filter_post" /\ pc'[p] # "filter_post" /\ filt'[p].via = "parsed")
                => pc'[p] = "filter_capacity"
          /\ (pc[p] = "filter_capacity" /\ pc'[p] # "filter_capacity"
                /\ Cardinality(DOMAIN filter_cache) < MAX_FILTER_CACHE_SIZE)
                => pc'[p] = "filter_store"
          /\ (pc[p] = "filter_store" /\ pc'[p] # "filter_store")
                => /\ RequestAndTitles(p) \in DOMAIN filter_cache'
                   /\ filter_cache'[RequestAndTitles(p)] = filt[p].indices
          /\ \A k \in DOMAIN filter_cache :
                k \in DOMAIN filter_cache' /\ filter_cache'[k] = filter_cache[k]
      ]_vars

\* reached: a request was served the index list that an earlier request with the
\* same request string and titles had stored, without a filter call of its own,
\* after a request with other rows had missed
C27_Witness ==
    \E p \in Procs :
        /\ filt[p].via = "hit" /\ filt[p].indices # <<>>
        /\ RequestAndTitles(p) \in DOMAIN filter_cache
        /\ filt[p].indices = filter_cache[RequestAndTitles(p)]
        /\ ~Passed(p, "filter_call")
        /\ Len(db_results[p]) > 20

\* C28 as stated: once a key is in sql_cache or in filter_cache, the value stored
\* under it never changes, under every interleaving of the requests: two requests
\* that both miss on one key do not overwrite an entry that is already there.
C28_StoredValuesNeverChange ==
    [][/\ \A k \in DOMAIN sql_cache :
             k \in DOMAIN sql_cache' /\ sql_cache'[k] = sql_cache[k]
       /\ \A k \in DOMAIN filter_cache :
             k \in DOMAIN filter_cache' /\ filter_cache'[k] = filter_cache[k]
      ]_vars

\* the query text the call returned has been normalized
CleanedAfterGetSql == GetSqlOver /\ "clean_query" \in DOMAIN returned

\* C29 as stated: for every query text returned by get_sql_from_deepseek, a
\* generated statement that passed the shape check or the fallback query, the
\* text that clean_sql makes of it still passes the same shape check.
C29_CleanSqlKeepsTheShape ==
    CleanedAfterGetSql
    => (ValidShape(returned.value.sql_text) => ValidShape(returned.clean_query))

\* C30 as stated: in every answer that lists books after the filter returned, each
\* row of the result set is listed at most once and every listed row is among the
\* first 20 rows, so that the list has at most min(20, rows) entries, whatever
\* index array the model returned, one that repeats a number included.
C30_EachRowListedOnce ==
    \A p \in Procs :
        (pc[p] = "done" /\ ret[p].kind = "books" /\ ~filt[p].raised)
        => LET listed == ret[p].books
               first20 == Take(db_results[p], 20)
           IN  /\ \A i \in DOMAIN listed : \E k \in DOMAIN first20 : listed[i] = first20[k]
               /\ \A i, j \in DOMAIN listed : i # j => listed[i] # listed[j]
               /\ Len(listed) <= Len(first20)

====
